---- MODULE Spec2Model ----
(***************************************************************************)
(* Full-text search of an Orama instance                                   *)
(* (packages/orama/src/methods/search-fulltext.ts).                        *)
(*                                                                         *)
(* JavaScript values are tagged records: [t |-> "undefined"],              *)
(* [t |-> "str", v |-> <<chars>>], [t |-> "num", v |-> n],                 *)
(* [t |-> "obj", v |-> [key -> value]], [t |-> "arr", v |-> <<...>>].      *)
(* A JavaScript string is a sequence of one-character strings, so that     *)
(* trim, split, includes, startsWith and the regular expressions of the    *)
(* exact-match filter are computed character by character.                 *)
(***************************************************************************)
EXTENDS Integers, Sequences, FiniteSets, TLC

\* ------------------------------------------------------------ JS values

Undefined == [t |-> "undefined"]
Null == [t |-> "null"]
Str(s) == [t |-> "str", v |-> s]
Num(n) == [t |-> "num", v |-> n]
Obj(f) == [t |-> "obj", v |-> f]
Arr(s) == [t |-> "arr", v |-> s]
Bool(b) == [t |-> "bool", v |-> b]

\* The empty object {}: a function with no key.
EmptyObj == Obj([k \in {} |-> Undefined])

IsDefined(x) == x.t # "undefined"

\* JavaScript truthiness of a value (!x is ~Truthy(x)).
Truthy(x) ==
  CASE x.t = "undefined" -> FALSE
    [] x.t = "null" -> FALSE
    [] x.t = "str" -> Len(x.v) > 0
    [] x.t = "num" -> x.v # 0
    [] x.t = "bool" -> x.v
    [] OTHER -> TRUE

\* ------------------------------------------------------------ strings

LowerCase == <<"a","b","c","d","e","f","g","h","i","j","k","l","m",
               "n","o","p","q","r","s","t","u","v","w","x","y","z">>
UpperCase == <<"A","B","C","D","E","F","G","H","I","J","K","L","M",
               "N","O","P","Q","R","S","T","U","V","W","X","Y","Z">>
Digits == <<"0","1","2","3","4","5","6","7","8","9">>

Range(s) == {s[i] : i \in DOMAIN s}

\* \w of a JavaScript regular expression: [A-Za-z0-9_].
WordChars == Range(LowerCase) \cup Range(UpperCase) \cup Range(Digits) \cup {"_"}

\* White space as String.prototype.trim and \s see it.
WhiteSpace == {" ", "\t", "\n", "\r"}

\* The characters escapeRegex escapes: [.*+?^${}()|[\]\\].
RegexMeta == {".", "*", "+", "?", "^", "$", "{", "}", "(", ")", "|", "[", "]", "\\"}

SubStr(s, from, to) == [i \in 1..(to - from + 1) |-> s[from + i - 1]]

\* String.prototype.startsWith / endsWith / includes.
StartsWith(s, p) == Len(p) <= Len(s) /\ SubStr(s, 1, Len(p)) = p
EndsWith(s, p) == Len(p) <= Len(s) /\ SubStr(s, Len(s) - Len(p) + 1, Len(s)) = p
Includes(s, p) == \E i \in 0..(Len(s) - Len(p)) : SubStr(s, i + 1, i + Len(p)) = p

RECURSIVE TrimStart(_)
TrimStart(s) ==
  IF s # <<>> /\ Head(s) \in WhiteSpace THEN TrimStart(Tail(s)) ELSE s

RECURSIVE TrimEnd(_)
TrimEnd(s) ==
  IF s # <<>> /\ s[Len(s)] \in WhiteSpace
  THEN TrimEnd(SubStr(s, 1, Len(s) - 1)) ELSE s

\* String.prototype.trim.
Trim(s) == TrimEnd(TrimStart(s))

\* String.prototype.split on a set of separator characters, one character
\* at a time (empty pieces kept, as split keeps them).
RECURSIVE SplitOn(_, _, _)
SplitOn(s, seps, cur) ==
  IF s = <<>> THEN <<cur>>
  ELSE IF Head(s) \in seps THEN <<cur>> \o SplitOn(Tail(s), seps, <<>>)
  ELSE SplitOn(Tail(s), seps, Append(cur, Head(s)))

\* Array.prototype.filter(Boolean) on an array of strings.
FilterNonEmpty(ss) == SelectSeq(ss, LAMBDA x : x # <<>>)

\* str.split(/\s+/).filter(Boolean): the pieces between runs of white space.
SplitWords(s) == FilterNonEmpty(SplitOn(s, WhiteSpace, <<>>))

\* Array.prototype.join.
RECURSIVE Join(_, _)
Join(ss, sep) ==
  IF ss = <<>> THEN <<>>
  ELSE IF Len(ss) = 1 THEN ss[1]
  ELSE ss[1] \o sep \o Join(Tail(ss), sep)

\* String(n) of a natural number, and the unary plus that reads it back.
RECURSIVE NumToStr(_)
NumToStr(n) ==
  IF n < 10 THEN <<Digits[n + 1]>>
  ELSE Append(NumToStr(n \div 10), Digits[(n % 10) + 1])

DigitValue(c) == (CHOOSE i \in DOMAIN Digits : Digits[i] = c) - 1

RECURSIVE StrToNum(_)
StrToNum(s) ==
  IF s = <<>> THEN 0
  ELSE 10 * StrToNum(SubStr(s, 1, Len(s) - 1)) + DigitValue(s[Len(s)])

\* ------------------------------------------------------------ regular expressions

\* escapeRegex: str.replace(/[.*+?^${}()|[\]\\]/g, '\\$&').
RECURSIVE escapeRegex(_)
escapeRegex(str) ==
  IF str = <<>> THEN <<>>
  ELSE (IF Head(str) \in RegexMeta THEN <<"\\", Head(str)>> ELSE <<Head(str)>>)
       \o escapeRegex(Tail(str))

\* new RegExp(pattern), for the patterns this file builds: a sequence of
\* atoms. "\b" is a word boundary, "\" before another character makes it a
\* literal, an unescaped "." matches any character but a line break.
RECURSIVE RegExp(_)
RegExp(pattern) ==
  IF pattern = <<>> THEN <<>>
  ELSE IF Head(pattern) = "\\" /\ Len(pattern) >= 2
    THEN (IF pattern[2] = "b" THEN <<[k |-> "wb"]>>
          ELSE <<[k |-> "lit", c |-> pattern[2]]>>)
         \o RegExp(Tail(Tail(pattern)))
  ELSE IF Head(pattern) = "."
    THEN <<[k |-> "any"]>> \o RegExp(Tail(pattern))
  ELSE <<[k |-> "lit", c |-> Head(pattern)]>> \o RegExp(Tail(pattern))

IsWordAt(text, i) == i >= 1 /\ i <= Len(text) /\ text[i] \in WordChars

\* Whether the atoms match text from offset p (p characters consumed).
RECURSIVE MatchAt(_, _, _)
MatchAt(atoms, text, p) ==
  IF atoms = <<>> THEN TRUE
  ELSE LET a == Head(atoms) IN
    CASE a.k = "wb" ->
           IsWordAt(text, p) # IsWordAt(text, p + 1) /\ MatchAt(Tail(atoms), text, p)
      [] a.k = "any" ->
           p < Len(text) /\ text[p + 1] \notin {"\n", "\r"}
           /\ MatchAt(Tail(atoms), text, p + 1)
      [] OTHER ->
           p < Len(text) /\ text[p + 1] = a.c /\ MatchAt(Tail(atoms), text, p + 1)

\* RegExp.prototype.test (no anchors, no flags).
RegexTest(atoms, text) == \E p \in 0..Len(text) : MatchAt(atoms, text, p)

\* /^\w+$/.test(s)
IsWordOnly(s) == s # <<>> /\ \A i \in DOMAIN s : s[i] \in WordChars

\* ------------------------------------------------------------ documents

\* documentsStore.get(docs, id): the stored document, or undefined.
documentsStore_get(docs, id) == IF id \in DOMAIN docs THEN docs[id] ELSE Undefined

\* documentsStore.getMultiple(docs, ids): one entry per id, undefined on a miss.
documentsStore_getMultiple(docs, ids) ==
  [i \in DOMAIN ids |-> documentsStore_get(docs, ids[i])]

\* `key in value` for an object or an array.
HasKey(value, key) ==
  CASE value.t = "obj" -> key \in DOMAIN value.v
    [] value.t = "arr" ->
         \/ key = <<"l","e","n","g","t","h">>
         \/ /\ key # <<>>
            /\ \A i \in DOMAIN key : key[i] \in Range(Digits)
            /\ NumToStr(StrToNum(key)) = key
            /\ StrToNum(key) < Len(value.v)
    [] OTHER -> FALSE

\* value[key], given HasKey(value, key).
GetKey(value, key) ==
  CASE value.t = "obj" -> value.v[key]
    [] key = <<"l","e","n","g","t","h">> -> Num(Len(value.v))
    [] OTHER -> value.v[StrToNum(key) + 1]

RECURSIVE WalkKeys(_, _)
WalkKeys(value, keys) ==
  IF keys = <<>> THEN value
  ELSE IF value.t \in {"obj", "arr"} /\ HasKey(value, Head(keys))
    THEN WalkKeys(GetKey(value, Head(keys)), Tail(keys))
  ELSE Undefined

\* getPropValue: the value at a dot-separated path, or undefined.
getPropValue(obj, path) == WalkKeys(obj, SplitOn(path, {"."}, <<>>))

\* ------------------------------------------------------------ exact-match filter

\* The test matchesExactTerm makes for one search term against a string.
TermMatches(searchTerm, propValue) ==
  IF IsWordOnly(searchTerm)
  THEN RegexTest(RegExp(<<"\\", "b">> \o escapeRegex(searchTerm) \o <<"\\", "b">>), propValue)
  ELSE RegexTest(RegExp(escapeRegex(searchTerm)), propValue)

matchesExactTerm(doc, prop, originalTerm, searchTerms, preserveSpaces, hasLeadingSpace, hasTrailingSpace) ==
  LET propValue == getPropValue(doc, prop) IN
  IF propValue.t # "str" THEN FALSE
  ELSE IF preserveSpaces /\ (hasLeadingSpace \/ hasTrailingSpace)
          /\ ~Includes(propValue.v, originalTerm)
    THEN FALSE
  ELSE \A i \in DOMAIN searchTerms : TermMatches(searchTerms[i], propValue.v)

filterBySpaceMatch(results, orama, term, propertiesToSearch) ==
  SelectSeq(results, LAMBDA r :
    LET doc == documentsStore_get(orama.data.docs, r[1]) IN
    /\ Truthy(doc)
    /\ \E i \in DOMAIN propertiesToSearch :
         LET propValue == getPropValue(doc, propertiesToSearch[i]) IN
         propValue.t = "str" /\ Includes(propValue.v, term))

\* (variant) the filter callback takes the element's position for its docId.
filterExactMatchesByPosition(orama, results, term, propertiesToSearch, preserveSpaces) ==
  LET trimmedTerm == Trim(term)
      hasLeadingSpace == StartsWith(term, <<" ">>)
      hasTrailingSpace == EndsWith(term, <<" ">>)
      searchTerms == SplitWords(trimmedTerm)
      numbered == [i \in DOMAIN results |-> <<i, results[i]>>]
      kept == SelectSeq(numbered, LAMBDA r :
         LET doc == documentsStore_get(orama.data.docs, r[1]) IN
         /\ Truthy(doc)
         /\ \E i \in DOMAIN propertiesToSearch :
              matchesExactTerm(doc, propertiesToSearch[i], term, searchTerms,
                               preserveSpaces, hasLeadingSpace, hasTrailingSpace))
  IN
  IF trimmedTerm = <<>>
  THEN IF preserveSpaces /\ (hasLeadingSpace \/ hasTrailingSpace)
       THEN filterBySpaceMatch(results, orama, term, propertiesToSearch)
       ELSE results
  ELSE IF Len(searchTerms) = 0 THEN results
  ELSE [i \in DOMAIN kept |-> kept[i][2]]

filterExactMatches(orama, results, term, propertiesToSearch, preserveSpaces) ==
  LET trimmedTerm == Trim(term)
      hasLeadingSpace == StartsWith(term, <<" ">>)
      hasTrailingSpace == EndsWith(term, <<" ">>)
      searchTerms == SplitWords(trimmedTerm)
  IN
  IF trimmedTerm = <<>>
  THEN IF preserveSpaces /\ (hasLeadingSpace \/ hasTrailingSpace)
       THEN filterBySpaceMatch(results, orama, term, propertiesToSearch)
       ELSE results
  ELSE IF Len(searchTerms) = 0 THEN results
  ELSE SelectSeq(results, LAMBDA r :
         LET doc == documentsStore_get(orama.data.docs, r[1]) IN
         /\ Truthy(doc)
         /\ \E i \in DOMAIN propertiesToSearch :
              matchesExactTerm(doc, propertiesToSearch[i], term, searchTerms,
                               preserveSpaces, hasLeadingSpace, hasTrailingSpace))

\* ------------------------------------------------------------ the instance's data

\* Property paths of the schema, and one that is not in it.
title == <<"t">>
body == <<"b">>
year == <<"y">>
tags == <<"g">>
author == <<"m", ".", "a">>
loc == <<"l">>
embedding == <<"e">>
nonexistent == <<"x">>
other == <<"z">>

TypeString == <<"s","t","r","i","n","g">>
TypeStringArray == TypeString \o <<"[","]">>
TypeNumber == <<"n","u","m","b","e","r">>

\* Texts of the documents and of the queries.
cat == <<"c","a","t">>
the_cat == <<"t","h","e"," ","c","a","t">>
category == <<"c","a","t","e","g","o","r","y">>
sp_cat_sat == <<" ","c","a","t"," ","s","a","t">>
Cat == <<"C","a","t">>
c_dot_t == <<"c",".","t">>
dog == <<"d","o","g">>
dog_c_dot_t == <<"d","o","g"," ","c",".","t">>

Doc1 ==
  Obj((title :> Str(the_cat)) @@ (body :> Str(category)) @@ (year :> Num(2))
      @@ (tags :> Arr(<<Str(cat)>>)) @@ (loc :> Num(1)) @@ (embedding :> Arr(<<Num(1)>>)))
Doc2 ==
  Obj((title :> Str(category)) @@ (body :> Str(dog_c_dot_t)) @@ (year :> Num(1))
      @@ (loc :> Num(3)))
Doc3 ==
  Obj((title :> Str(sp_cat_sat)) @@ (<<"m">> :> Obj((<<"a">> :> Str(Cat))))
      @@ (year :> Num(1)) @@ (body :> Null) @@ (loc :> Num(2)))

\* Every document ever inserted, by internal id. The index keeps its entry
\* for each; the document store may have lost some (see InitData).
AllDocs == (1 :> Doc1) @@ (2 :> Doc2) @@ (3 :> Doc3)

\* The schema as the index reports it.
SearchableProperties == <<title, year, body, tags, author>>
SearchablePropertiesWithTypes ==
  (title :> TypeString) @@ (year :> TypeNumber) @@ (body :> TypeString)
  @@ (tags :> TypeStringArray) @@ (author :> TypeString)
VectorIndexes == {embedding}

\* ------------------------------------------------------------ collaborators

\* createError(code, ...args) of errors.js: the code and its arguments.
createError(code, a, b) == [code |-> code, args |-> <<a, b>>]

\* A runtime TypeError (reading a property of undefined).
TypeError == [code |-> "TypeError", args |-> <<>>]

\* index.getSearchableProperties / getSearchablePropertiesWithTypes.
getSearchableProperties(index) == index.searchableProperties
getSearchablePropertiesWithTypes(index) == index.searchablePropertiesWithTypes

\* count(orama) of methods/docs.js: the number of stored documents.
count(orama) == Cardinality(DOMAIN orama.data.docs)

\* Ascending sequence of the elements of a finite set of integers.
RECURSIVE SortedSeq(_)
SortedSeq(S) ==
  IF S = {} THEN <<>>
  ELSE LET m == CHOOSE x \in S : \A y \in S : x <= y
       IN <<m>> \o SortedSeq(S \ {m})

ToLower(c) ==
  IF c \in Range(UpperCase)
  THEN LowerCase[CHOOSE i \in DOMAIN UpperCase : UpperCase[i] = c] ELSE c

\* The tokenizer: lower-cased runs of word characters.
tokenize(s) ==
  FilterNonEmpty(SplitOn([i \in DOMAIN s |-> ToLower(s[i])],
                         {ToLower(s[i]) : i \in DOMAIN s} \ WordChars, <<>>))

\* The indexed tokens of a property value (a string, or an array of strings).
RECURSIVE TokensOf(_)
TokensOf(value) ==
  CASE value.t = "str" -> Range(tokenize(value.v))
    [] value.t = "arr" -> UNION {TokensOf(value.v[i]) : i \in DOMAIN value.v}
    [] OTHER -> {}

\* Whether the index holds the property for the document at all.
IsIndexed(value) == value.t \in {"str", "arr"}

\* The score one term token gives a property: 2 when the token is found
\* whole, 1 when found as a prefix (not in exact mode).
TokenScoreOf(toks, tt, exact) ==
  IF tt \in toks THEN 2
  ELSE IF ~exact /\ \E w \in toks : StartsWith(w, tt) THEN 1
  ELSE 0

RECURSIVE SumTokenScores(_, _, _)
SumTokenScores(toks, termTokens, exact) ==
  IF termTokens = <<>> THEN 0
  ELSE TokenScoreOf(toks, Head(termTokens), exact)
       + SumTokenScores(toks, Tail(termTokens), exact)

\* The score one property gives a document for a tokenized term; an empty
\* term scores 1 for every property the index holds for the document.
PropScore(value, termTokens, exact) ==
  IF ~IsIndexed(value) THEN 0
  ELSE IF termTokens = <<>> THEN 1
  ELSE SumTokenScores(TokensOf(value), termTokens, exact)

BoostOf(boost, prop) == IF prop \in DOMAIN boost.v THEN boost.v[prop].v ELSE 1

RECURSIVE DocScore(_, _, _, _, _, _)
DocScore(doc, termTokens, props, exact, boost, i) ==
  IF i > Len(props) THEN 0
  ELSE PropScore(getPropValue(doc, props[i]), termTokens, exact) * BoostOf(boost, props[i])
       + DocScore(doc, termTokens, props, exact, boost, i + 1)

\* index.search: the scored search of the inverted index, which covers
\* every document ever indexed. A document is a candidate when some searched
\* property scores, and, given a filter set, when it is in it.
index_search(index, term, language, propertiesToSearch, exact, tolerance, boost, relevance, docsCount, whereFiltersIDs, threshold) ==
  LET termTokens == tokenize(term)
      score(id) == DocScore(index.docs[id], termTokens, propertiesToSearch, exact, boost, 1)
      hit(id) == /\ score(id) > 0
                 /\ (whereFiltersIDs.t = "undefined" \/ id \in whereFiltersIDs.v)
      ids == SelectSeq(SortedSeq(DOMAIN index.docs), hit)
  IN [i \in DOMAIN ids |-> <<ids[i], score(ids[i])>>]

\* A where-clause is an object of property -> condition: a number (the
\* property equals it) or {radius: r} (the geo point lies within r).
radius == <<"r">>
IsGeoCondition(cond) == cond.t = "obj" /\ radius \in DOMAIN cond.v

Satisfies(doc, prop, cond) ==
  LET value == getPropValue(doc, prop) IN
  IF IsGeoCondition(cond)
  THEN value.t = "num" /\ value.v <= cond.v[radius].v
  ELSE value = cond

\* index.searchByWhereClause: the ids that satisfy every condition.
searchByWhereClause(index, where, language) ==
  {id \in DOMAIN index.docs :
     \A prop \in DOMAIN where.v : Satisfies(index.docs[id], prop, where.v[prop])}

\* searchByGeoWhereClause: for a where-clause that is one geo condition, the
\* matching ids scored by closeness; null otherwise.
searchByGeoWhereClause(index, where) ==
  IF Cardinality(DOMAIN where.v) = 1
     /\ \A prop \in DOMAIN where.v : IsGeoCondition(where.v[prop])
  THEN LET prop == CHOOSE q \in DOMAIN where.v : TRUE
           r == where.v[prop].v[radius].v
           ids == SelectSeq(SortedSeq(DOMAIN index.docs),
                            LAMBDA id : Satisfies(index.docs[id], prop, where.v[prop]))
       IN Arr([i \in DOMAIN ids |->
                 <<ids[i], r - getPropValue(index.docs[ids[i]], prop).v + 1>>])
  ELSE Null

\* documentsStore.getAll(docs) and Object.keys of it: the ids as strings, in
\* ascending order of the integer keys.
ObjectKeys(docs) ==
  LET ids == SortedSeq(DOMAIN docs) IN [i \in DOMAIN ids |-> NumToStr(ids[i])]

\* ------------------------------------------------------------ innerFullTextSearch

InSeq(x, seq) == \E i \in DOMAIN seq : seq[i] = x

\* One entry of the record of collaborator calls a search makes, in order.
Call(fn, arg, ret) == [fn |-> fn, arg |-> arg, ret |-> ret]

Star == Str(<<"*">>)

\* x ?? y
Nullish(x) == x.t \in {"undefined", "null"}
Coalesce(x, y) == IF Nullish(x) THEN y ELSE x

defaultBM25Params == [k |-> 120, b |-> 75, d |-> 50]

\* The BM25 fields, in hundredths (k = 1.2 is 120).
RelevanceField(r, key, default) ==
  IF key \in DOMAIN r.v /\ ~Nullish(r.v[key]) THEN r.v[key] ELSE Num(default)

\* applyDefault: the object it returns. r is the caller's object when one is
\* given, so the three assignments are made to the caller's object.
applyDefault(bm25Relevance) ==
  LET r == Coalesce(bm25Relevance, EmptyObj) IN
  Obj((<<"k">> :> RelevanceField(r, <<"k">>, defaultBM25Params.k))
      @@ (<<"b">> :> RelevanceField(r, <<"b">>, defaultBM25Params.b))
      @@ (<<"d">> :> RelevanceField(r, <<"d">>, defaultBM25Params.d))
      @@ r.v)

\* params.relevance after applyDefault(params.relevance) has run: the same
\* object, now with its defaults filled in; a missing one stays missing.
RelevanceAfterApplyDefault(bm25Relevance) ==
  IF Nullish(bm25Relevance) THEN bm25Relevance ELSE applyDefault(bm25Relevance)

\* The string-typed searchable properties, in the index's order.
StringProperties(index) ==
  LET propertiesToSearchWithTypes == getSearchablePropertiesWithTypes(index) IN
  SelectSeq(getSearchableProperties(index),
            LAMBDA prop : StartsWith(propertiesToSearchWithTypes[prop], TypeString))

\* (variant) the cache is written after the list was narrowed to the
\* caller's explicit properties.
CacheValueNarrowed(propertiesToSearch, properties) ==
  IF Truthy(properties) /\ properties.t = "arr"
  THEN Arr(SelectSeq(propertiesToSearch, LAMBDA prop : InSeq(prop, properties.v)))
  ELSE Arr(propertiesToSearch)

\* What is stored in orama.caches['propertiesToSearch'] on a cache miss.
CacheValue(propertiesToSearch, properties) == Arr(propertiesToSearch)

\* The explicit properties that are not searchable, in the caller's order.
UnknownProperties(properties, propertiesToSearch) ==
  SelectSeq(properties.v, LAMBDA prop : ~InSeq(prop, propertiesToSearch))

\* (variant) the last unknown property is named instead of the first.
OffendingPropertyLast(unknown) == unknown[Len(unknown)]

\* The property the UNKNOWN_INDEX error names.
OffendingProperty(unknown) == unknown[1]

\* propertiesToSearch.filter((prop) => properties.includes(prop))
NarrowProperties(propertiesToSearch, properties) ==
  SelectSeq(propertiesToSearch, LAMBDA prop : InSeq(prop, properties.v))

\* Object.keys(params.where ?? {}).length > 0
HasFilters(where) == Cardinality(DOMAIN Coalesce(where, EmptyObj).v) > 0

\* term || properties
UsesIndexSearch(term, properties) == Truthy(term) \/ Truthy(properties)

\* (variant) the callback of map takes the array index for the key.
AllDocumentsByIndex(docs) ==
  LET docIds == ObjectKeys(docs) IN [i \in DOMAIN docIds |-> <<i - 1, 0>>]

\* docIds.map((k) => [+k, 0]) over Object.keys(documentsStore.getAll(docs)).
AllDocuments(docs) ==
  LET docIds == ObjectKeys(docs) IN [i \in DOMAIN docIds |-> <<StrToNum(docIds[i]), 0>>]

\* Array.from(whereFiltersIDs).map((k) => [+k, 0])
FilteredDocuments(whereFiltersIDs) ==
  LET docIds == SortedSeq(whereFiltersIDs) IN [i \in DOMAIN docIds |-> <<docIds[i], 0>>]

\* The outcome of a piece of code: what it returned or threw, the instance's
\* caches and the caller's params as it left them, and the calls it made.
Outcome(status, value, caches, params, trace) ==
  [status |-> status, value |-> value, caches |-> caches, params |-> params, trace |-> trace]

innerFullTextSearch(orama, params, language) ==
  LET term == params.term
      properties == params.properties
      preserveSpaces ==
        IF Truthy(params.exact) THEN Truthy(Coalesce(params.preserveSpaces, Bool(FALSE)))
        ELSE FALSE
      index == orama.data.index
      cached == orama.caches.propertiesToSearch
      miss == ~Truthy(cached)
      allProperties == IF miss THEN StringProperties(index) ELSE cached.v
      caches1 ==
        IF miss
        THEN [orama.caches EXCEPT !.propertiesToSearch = CacheValue(allProperties, properties)]
        ELSE orama.caches
      trace1 ==
        IF miss
        THEN <<Call("index.getSearchablePropertiesWithTypes", <<>>, <<>>),
               Call("index.getSearchableProperties", <<>>, <<>>)>>
        ELSE <<>>
      explicit == Truthy(properties) /\ properties # Star
      unknown == IF explicit THEN UnknownProperties(properties, allProperties) ELSE <<>>
      propertiesToSearch ==
        IF explicit THEN NarrowProperties(allProperties, properties) ELSE allProperties
      hasFilters == HasFilters(params.where)
      whereFiltersIDs ==
        IF hasFilters
        THEN [t |-> "set", v |-> searchByWhereClause(index, params.where, language)]
        ELSE Undefined
      trace2 ==
        trace1 \o (IF hasFilters
                   THEN <<Call("index.searchByWhereClause", params.where, whereFiltersIDs)>>
                   ELSE <<>>)
      threshold == IF ~Nullish(params.threshold) THEN params.threshold ELSE Num(1)
  IN
  IF unknown # <<>>
  THEN Outcome("throw",
               createError("UNKNOWN_INDEX", OffendingProperty(unknown),
                           Join(allProperties, <<",", " ">>)),
               caches1, params, trace1)
  ELSE IF UsesIndexSearch(term, properties)
  THEN
    LET docsCount == count(orama)
        relevance == applyDefault(params.relevance)
        params1 == [params EXCEPT !.relevance = RelevanceAfterApplyDefault(params.relevance)]
        termText == IF Truthy(term) THEN term.v ELSE <<>>
        exact == Truthy(params.exact)
        found ==
          index_search(index, termText, language, propertiesToSearch, exact,
                       IF Truthy(params.tolerance) THEN params.tolerance ELSE Num(0),
                       IF Truthy(params.boost) THEN params.boost ELSE EmptyObj,
                       relevance, docsCount, whereFiltersIDs, threshold)
        trace3 ==
          trace2 \o <<Call("count", <<>>, docsCount),
                      Call("index.search",
                           [term |-> termText, properties |-> propertiesToSearch,
                            relevance |-> relevance, whereFiltersIDs |-> whereFiltersIDs],
                           found)>>
    IN
    IF exact /\ Truthy(term)
    THEN LET kept == filterExactMatches(orama, found, term.v, propertiesToSearch,
                                        preserveSpaces)
         IN Outcome("return", kept, caches1, params1,
                    trace3 \o <<Call("filterExactMatches",
                                     [results |-> found, term |-> term.v,
                                      properties |-> propertiesToSearch,
                                      preserveSpaces |-> preserveSpaces],
                                     kept)>>)
    ELSE Outcome("return", found, caches1, params1, trace3)
  ELSE IF hasFilters
  THEN
    LET geoResults == searchByGeoWhereClause(index, params.where)
        trace3 == trace2 \o <<Call("searchByGeoWhereClause", params.where, geoResults)>>
    IN
    IF Truthy(geoResults)
    THEN Outcome("return", geoResults.v, caches1, params, trace3)
    ELSE Outcome("return", FilteredDocuments(whereFiltersIDs.v), caches1, params, trace3)
  ELSE
    Outcome("return", AllDocuments(orama.data.docs), caches1, params,
            trace2 \o <<Call("documentsStore.getAll", <<>>, <<>>)>>)

\* ------------------------------------------------------------ sort, pin, fetch

\* Array.prototype.sort, with the comparator given as the function
\* before[<<a, b>>] ("a goes before b"): a stable insertion sort.
RECURSIVE InsertSorted(_, _, _)
InsertSorted(sorted, x, before) ==
  IF sorted = <<>> THEN <<x>>
  ELSE IF before[<<x, sorted[Len(sorted)]>>]
    THEN Append(InsertSorted(SubSeq(sorted, 1, Len(sorted) - 1), x, before),
                sorted[Len(sorted)])
  ELSE Append(sorted, x)

RECURSIVE ArraySort(_, _)
ArraySort(seq, before) ==
  IF seq = <<>> THEN <<>>
  ELSE InsertSorted(ArraySort(SubSeq(seq, 1, Len(seq) - 1), before), seq[Len(seq)], before)

\* The comparator function of an operator over the items of a sequence.
Pairs(seq) == Range(seq) \X Range(seq)

\* sortTokenScorePredicate of utils.js: score descending, then id ascending.
sortTokenScorePredicate(a, b) == b[2] < a[2] \/ (b[2] = a[2] /\ a[1] < b[1])

\* The comparators a caller passes as sortBy: "byScoreAsc" is
\* (a, b) => a[1] - b[1]; "byYear" is (a, b) => a[2].y - b[2].y, which reads
\* a property of the item's document.
Comparators == {"byScoreAsc", "byYear"}
SortByFunction(name) == [t |-> "fn", v |-> name]

ComparatorReadsDocument(name) == name = "byYear"

ComparatorBefore(name, a, b) ==
  IF name = "byYear" THEN a[3].v[year].v < b[3].v[year].v ELSE a[2] < b[2]

\* The identifier a document has outside the engine, and the way back.
ExternalId(id) == <<"d">> \o NumToStr(id)
getInternalDocumentId(store, id) == StrToNum(Tail(id))

\* sorter.sortBy: the candidates ordered by the property's value in the
\* sorter's own index, keyed by external id.
sorter_sortBy(sorting, arr, sortBy) ==
  LET property == sortBy.v[<<"p">>].v
      key(r) == getPropValue(sorting[r[1]], property).v
      sorted == ArraySort(arr, [ab \in Pairs(arr) |-> key(ab[1]) < key(ab[2])])
  IN [i \in DOMAIN sorted |-> <<ExternalId(sorted[i][1]), sorted[i][2]>>]

\* The (id, score, document) items built for a custom comparator.
docsWithIdAndScore(docs, uniqueDocsArray) ==
  [i \in DOMAIN docs |-> <<uniqueDocsArray[i][1], uniqueDocsArray[i][2], docs[i]>>]

\* The sorting stage of performSearchLogic: [status, value, trace].
SortStage(orama, uniqueDocsArray, sortBy) ==
  IF Truthy(sortBy)
  THEN IF sortBy.t = "fn"
       THEN LET ids == [i \in DOMAIN uniqueDocsArray |-> uniqueDocsArray[i][1]]
                docs == documentsStore_getMultiple(orama.data.docs, ids)
                items == docsWithIdAndScore(docs, uniqueDocsArray)
                trace == <<Call("documentsStore.getMultiple", ids, docs)>>
                          \o (IF Len(items) >= 2
                              THEN <<Call("sortBy", items, <<>>)>> ELSE <<>>)
            IN IF /\ Len(items) >= 2
                  /\ ComparatorReadsDocument(sortBy.v)
                  /\ \E i \in DOMAIN items : ~Truthy(items[i][3])
               THEN [status |-> "throw", value |-> TypeError, trace |-> trace]
               ELSE LET sorted == ArraySort(items, [ab \in Pairs(items) |->
                                                   ComparatorBefore(sortBy.v, ab[1], ab[2])])
                    IN [status |-> "return",
                        value |-> [i \in DOMAIN sorted |-> <<sorted[i][1], sorted[i][2]>>],
                        trace |-> trace]
       ELSE LET sorted == sorter_sortBy(orama.data.sorting, uniqueDocsArray, sortBy)
            IN [status |-> "return",
                value |-> [i \in DOMAIN sorted |->
                             <<getInternalDocumentId(orama.internalDocumentIDStore, sorted[i][1]),
                               sorted[i][2]>>],
                trace |-> <<Call("sorter.sortBy", uniqueDocsArray, sorted)>>]
  ELSE [status |-> "return",
        value |-> ArraySort(uniqueDocsArray,
                           [ab \in Pairs(uniqueDocsArray) |->
                              sortTokenScorePredicate(ab[1], ab[2])]),
        trace |-> <<>>]

\* One pinning rule applied: the document taken out of the sequence (it keeps
\* its score, or gets 0 when it was no candidate) and put at the position.
Promote(arr, rule) ==
  LET old == SelectSeq(arr, LAMBDA r : r[1] = rule.doc)
      rest == SelectSeq(arr, LAMBDA r : r[1] # rule.doc)
      at == IF rule.position < Len(rest) THEN rule.position ELSE Len(rest)
      item == IF old = <<>> THEN <<rule.doc, 0>> ELSE old[1]
  IN SubSeq(rest, 1, at) \o <<item>> \o SubSeq(rest, at + 1, Len(rest))

RECURSIVE PromoteAll(_, _)
PromoteAll(arr, rules) ==
  IF rules = <<>> THEN arr ELSE PromoteAll(Promote(arr, Head(rules)), Tail(rules))

\* applyPinningRules of components/pinning-manager.js: the rules whose term
\* is the query's term, applied in order; no term, no rule.
applyPinningRules(orama, pinning, uniqueDocsArray, term) ==
  IF ~Truthy(term) THEN uniqueDocsArray
  ELSE PromoteAll(uniqueDocsArray, SelectSeq(pinning, LAMBDA rule : rule.term = term.v))

Hit(orama, r) ==
  [t |-> "hit", id |-> ExternalId(r[1]), score |-> r[2],
   document |-> documentsStore_get(orama.data.docs, r[1])]

\* fetchDocuments of methods/search.js: the candidates at offset ..
\* offset + limit - 1, each with its document; a candidate whose document
\* the store does not hold leaves a hole.
fetchDocuments(orama, uniqueDocsArray, offset, limit) ==
  LET last == IF offset + limit < Len(uniqueDocsArray)
              THEN offset + limit ELSE Len(uniqueDocsArray)
      page == SubSeq(uniqueDocsArray, offset + 1, last)
  IN [i \in DOMAIN page |->
        IF Truthy(documentsStore_get(orama.data.docs, page[i][1]))
        THEN Hit(orama, page[i]) ELSE Undefined]

\* fetchDocumentsWithDistinct of methods/search.js: one candidate per value
\* of the distinctOn property, the first offset of them skipped, at most
\* limit returned; candidates without document or value are passed over.
RECURSIVE DistinctWalk(_, _, _, _, _, _, _)
DistinctWalk(orama, arr, offset, limit, distinctOn, seen, skipped) ==
  IF arr = <<>> \/ limit = 0 THEN <<>>
  ELSE LET doc == documentsStore_get(orama.data.docs, Head(arr)[1])
           value == IF Truthy(doc) THEN getPropValue(doc, distinctOn) ELSE Undefined
       IN IF ~IsDefined(value) \/ value \in seen
          THEN DistinctWalk(orama, Tail(arr), offset, limit, distinctOn, seen, skipped)
          ELSE IF skipped < offset
          THEN DistinctWalk(orama, Tail(arr), offset, limit, distinctOn,
                            seen \cup {value}, skipped + 1)
          ELSE <<Hit(orama, Head(arr))>>
               \o DistinctWalk(orama, Tail(arr), offset, limit - 1, distinctOn,
                               seen \cup {value}, skipped)

fetchDocumentsWithDistinct(orama, uniqueDocsArray, offset, limit, distinctOn) ==
  DistinctWalk(orama, uniqueDocsArray, offset, limit, distinctOn, {}, 0)

\* removeVectorsFromHits of utils.js: each hit's document without the
\* vector properties.
WithoutKeys(doc, keys) == Obj([k \in (DOMAIN doc.v) \ keys |-> doc.v[k]])
removeVectorsFromHits(hits, vectorProperties) ==
  [i \in DOMAIN hits |-> [hits[i] EXCEPT !.document = WithoutKeys(@, vectorProperties)]]

\* The values a property takes over the candidates whose document is stored.
ValuesOf(orama, arr, prop) ==
  LET present == SelectSeq(arr, LAMBDA r : Truthy(documentsStore_get(orama.data.docs, r[1])))
  IN [i \in DOMAIN present |-> getPropValue(orama.data.docs[present[i][1]], prop)]

\* getFacets of components/facets.js: per facet property, how many
\* candidates carry each value.
getFacets(orama, uniqueDocsArray, facets) ==
  [prop \in DOMAIN facets.v |->
     LET values == ValuesOf(orama, uniqueDocsArray, prop)
     IN [x \in Range(values) |-> Cardinality({i \in DOMAIN values : values[i] = x})]]

\* getGroups of components/groups.js: per value of the groupBy property, the
\* candidates that carry it, in candidate order.
getGroups(orama, uniqueDocsArray, groupBy) ==
  LET prop == groupBy.v[<<"p">>].v
      values == ValuesOf(orama, uniqueDocsArray, prop)
  IN [x \in Range(values) |->
        SelectSeq(uniqueDocsArray, LAMBDA r :
          /\ Truthy(documentsStore_get(orama.data.docs, r[1]))
          /\ getPropValue(orama.data.docs[r[1]], prop) = x)]

\* ------------------------------------------------------------ performSearchLogic

\* const { limit = 10, ... } = params
DefaultLimit == 10
DefaultOffset == 0

\* (variant) the count taken from the page.
CountOfHits(uniqueDocsArray, hits) == Len(hits)

\* searchResult.count
CountOf(uniqueDocsArray, hits) == Len(uniqueDocsArray)

\* (variant) the result of applyPinningRules is dropped.
PageSourceUnpinned(sorted, pinned) == sorted

\* The sequence that pagination, count, facets and groups read: the one
\* applyPinningRules returned, assigned back to uniqueDocsArray.
PageSource(sorted, pinned) == pinned

\* results.filter(Boolean)
FilterBoolean(results) == SelectSeq(results, Truthy)

\* The part of performSearchLogic after the sort: pin, fetch, envelope.
\* elapsed stands for getNanosecondsTime() - timeStart.
Envelope(orama, params, sorted, elapsed) ==
  LET vectorProperties == orama.data.index.vectorIndexes
      shouldCalculateFacets ==
        Truthy(params.facets) /\ Cardinality(DOMAIN params.facets.v) > 0
      limit == IF IsDefined(params.limit) THEN params.limit.v ELSE DefaultLimit
      offset == IF IsDefined(params.offset) THEN params.offset.v ELSE DefaultOffset
      distinctOn == params.distinctOn
      includeVectors ==
        IF IsDefined(params.includeVectors) THEN Truthy(params.includeVectors) ELSE FALSE
      isPreflight == params.preflight = Bool(TRUE)
      pinned == applyPinningRules(orama, orama.data.pinning, sorted, params.term)
      uniqueDocsArray == PageSource(sorted, pinned)
      results ==
        IF ~isPreflight
        THEN Arr(IF Truthy(distinctOn)
                 THEN fetchDocumentsWithDistinct(orama, uniqueDocsArray, offset, limit,
                                                 distinctOn.v)
                 ELSE fetchDocuments(orama, uniqueDocsArray, offset, limit))
        ELSE Undefined
      filtered == IF IsDefined(results) THEN FilterBoolean(results.v) ELSE <<>>
      hits == IF IsDefined(results) /\ ~includeVectors
              THEN removeVectorsFromHits(filtered, vectorProperties) ELSE filtered
      facets == IF shouldCalculateFacets
                THEN getFacets(orama, uniqueDocsArray, params.facets) ELSE Undefined
      groups == IF Truthy(params.groupBy)
                THEN getGroups(orama, uniqueDocsArray, params.groupBy) ELSE Undefined
      trace ==
        <<Call("applyPinningRules", sorted, pinned)>>
        \o (IF ~isPreflight
            THEN <<Call(IF Truthy(distinctOn) THEN "fetchDocumentsWithDistinct"
                        ELSE "fetchDocuments",
                        [arr |-> uniqueDocsArray, offset |-> offset, limit |-> limit],
                        results.v)>>
            ELSE <<>>)
        \o (IF shouldCalculateFacets
            THEN <<Call("getFacets", uniqueDocsArray, facets)>> ELSE <<>>)
        \o (IF Truthy(params.groupBy)
            THEN <<Call("getGroups", uniqueDocsArray, groups)>> ELSE <<>>)
  IN [value |-> [elapsed |-> elapsed, hits |-> hits,
                 count |-> CountOf(uniqueDocsArray, hits),
                 facets |-> facets, groups |-> groups],
      trace |-> trace]

\* performSearchLogic once the candidates are sorted.
AfterSort(orama, elapsed, inner, sorted) ==
  IF sorted.status = "throw"
  THEN Outcome("throw", sorted.value, inner.caches, inner.params,
               inner.trace \o sorted.trace)
  ELSE LET env == Envelope(orama, inner.params, sorted.value, elapsed)
       IN Outcome("return", env.value, inner.caches, inner.params,
                  inner.trace \o sorted.trace \o env.trace)

\* performSearchLogic once innerFullTextSearch has returned or thrown.
AfterInner(orama, elapsed, inner) ==
  IF inner.status = "throw" THEN inner
  ELSE AfterSort(orama, elapsed, inner,
                 SortStage(orama, inner.value, inner.params.sortBy))

\* The outcome of innerFullTextSearch with its return value put on record.
Returned(inner) ==
  IF inner.status = "throw" THEN inner
  ELSE [inner EXCEPT !.trace = Append(@, Call("innerFullTextSearch", <<>>, inner.value))]

performSearchLogic(orama, params, language, elapsed) ==
  AfterInner(orama, elapsed, Returned(innerFullTextSearch(orama, params, language)))

\* ------------------------------------------------------------ state

VARIABLES
  orama,   \* the two search instances: their data, caches and hooks
  calls,   \* per caller: its search in flight or finished, and its params object
  lab      \* an exact-match filter applied to inputs of its own

vars == <<orama, calls, lab>>

\* "plain" has no hook; "hooked" is the same instance with hooks registered.
Instances == {"plain", "hooked"}

\* A SearchParams object with no field set.
NoParams ==
  [term |-> Undefined, properties |-> Undefined, where |-> Undefined,
   exact |-> Undefined, preserveSpaces |-> Undefined, tolerance |-> Undefined,
   boost |-> Undefined, relevance |-> Undefined, threshold |-> Undefined,
   limit |-> Undefined, offset |-> Undefined, distinctOn |-> Undefined,
   includeVectors |-> Undefined, preflight |-> Undefined, sortBy |-> Undefined,
   facets |-> Undefined, groupBy |-> Undefined]

Language == Undefined

\* The hooks of a list, by name.
Hooks(kind, n) == [j \in 1..n |-> <<kind, j>>]

\* An instance whose store holds the documents `present`, with the pinning
\* rules `pinning` and `nBefore`/`nAfter` hooks.
Instance(present, pinning, nBefore, nAfter) ==
  [data |-> [index |-> [searchableProperties |-> SearchableProperties,
                        searchablePropertiesWithTypes |-> SearchablePropertiesWithTypes,
                        vectorIndexes |-> VectorIndexes,
                        docs |-> AllDocs],
             docs |-> [id \in present |-> AllDocs[id]],
             sorting |-> AllDocs,
             pinning |-> pinning],
   internalDocumentIDStore |-> <<>>,
   caches |-> [propertiesToSearch |-> Undefined],
   beforeSearch |-> Hooks("beforeSearch", nBefore),
   afterSearch |-> Hooks("afterSearch", nAfter)]

IdleCall ==
  [pc |-> "idle", inst |-> "plain", params |-> NoParams, given |-> NoParams,
   k |-> 0, ran |-> <<>>, result |-> Undefined, trace |-> <<>>]

LabIdle == [pc |-> "idle"]

Finished == {"returned", "threw", "resolved", "rejected"}

\* ------------------------------------------------------------ fullTextSearch

\* orama.beforeSearch?.length || orama.afterSearch?.length
asyncNeeded(o) == Len(o.beforeSearch) > 0 \/ Len(o.afterSearch) > 0

\* The call record after performSearchLogic ran in it: the result or the
\* error, the params object as the logic left it, and what was called.
AfterLogic(call, out, okPc, failPc) ==
  [call EXCEPT !.pc = IF out.status = "return" THEN okPc ELSE failPc,
               !.k = 0,
               !.params = out.params,
               !.result = out.value,
               !.trace = out.trace,
               !.ran = Append(@, [ev |-> "performSearchLogic", hook |-> <<>>,
                                  result |-> Undefined])]

\* The step in which performSearchLogic runs for caller c: the call record
\* takes its outcome and the instance its caches.
RunLogic(c, call, out, okPc, failPc) ==
  /\ calls' = [calls EXCEPT ![c] = AfterLogic(call, out, okPc, failPc)]
  /\ orama' = [orama EXCEPT ![call.inst].caches = out.caches]

\* The call record of a search just started.
Fresh(i, p) == [IdleCall EXCEPT !.inst = i, !.params = p, !.given = p]

\* fullTextSearch(orama[i], p, language) called by caller c. Without hooks
\* the logic runs in the call and the envelope is returned (or the error
\* thrown); with hooks the call returns the promise of executeSearchAsync.
Start(c, i, p) ==
  IF asyncNeeded(orama[i])
  THEN /\ calls' = [calls EXCEPT ![c] = [Fresh(i, p) EXCEPT !.pc = "before"]]
       /\ UNCHANGED orama
  ELSE RunLogic(c, Fresh(i, p), performSearchLogic(orama[i], p, Language, 0),
                "returned", "threw")

Search(c, i, p) ==
  /\ calls[c].pc = "idle"
  /\ Start(c, i, p)
  /\ UNCHANGED lab

\* The caller searches again with the params object of its last search.
SearchAgain(c) ==
  /\ calls[c].pc \in Finished
  /\ Start(c, calls[c].inst, calls[c].params)
  /\ UNCHANGED lab

\* The caller drops its result and its params object.
Release(c) ==
  /\ calls[c].pc \in Finished
  /\ calls' = [calls EXCEPT ![c] = IdleCall]
  /\ UNCHANGED <<orama, lab>>

\* executeSearchAsync: runBeforeSearch awaits one more beforeSearch hook.
BeforeHook(c) ==
  /\ calls[c].pc = "before"
  /\ calls[c].k < Len(orama[calls[c].inst].beforeSearch)
  /\ calls' = [calls EXCEPT
       ![c].k = @ + 1,
       ![c].ran = Append(@, [ev |-> "beforeSearch",
                             hook |-> orama[calls[c].inst].beforeSearch[calls[c].k + 1],
                             result |-> Undefined])]
  /\ UNCHANGED <<orama, lab>>

\* (variant) an error of performSearchLogic is caught and the hooks go on.
CoreKeepsGoing(c) ==
  /\ calls[c].pc = "before"
  /\ calls[c].k = Len(orama[calls[c].inst].beforeSearch)
  /\ RunLogic(c, calls[c],
              performSearchLogic(orama[calls[c].inst], calls[c].params, Language,
                                 Len(calls[c].ran)),
              "after", "after")
  /\ UNCHANGED lab

\* executeSearchAsync: const searchResult = performSearchLogic(). The time
\* elapsed is one tick per hook awaited so far.
Core(c) ==
  /\ calls[c].pc = "before"
  /\ calls[c].k = Len(orama[calls[c].inst].beforeSearch)
  /\ RunLogic(c, calls[c],
              performSearchLogic(orama[calls[c].inst], calls[c].params, Language,
                                 Len(calls[c].ran)),
              "after", "rejected")
  /\ UNCHANGED lab

\* executeSearchAsync: runAfterSearch awaits one more afterSearch hook,
\* which is passed searchResult.
AfterHook(c) ==
  /\ calls[c].pc = "after"
  /\ calls[c].k < Len(orama[calls[c].inst].afterSearch)
  /\ calls' = [calls EXCEPT
       ![c].k = @ + 1,
       ![c].ran = Append(@, [ev |-> "afterSearch",
                             hook |-> orama[calls[c].inst].afterSearch[calls[c].k + 1],
                             result |-> calls[c].result])]
  /\ UNCHANGED <<orama, lab>>

\* (variant) runAfterSearch is not awaited.
ResolveEarly(c) ==
  /\ calls[c].pc = "after"
  /\ calls' = [calls EXCEPT ![c].pc = "resolved"]
  /\ UNCHANGED <<orama, lab>>

\* executeSearchAsync: return searchResult (the promise resolves).
Resolve(c) ==
  /\ calls[c].pc = "after"
  /\ calls[c].k = Len(orama[calls[c].inst].afterSearch)
  /\ calls' = [calls EXCEPT ![c].pc = "resolved"]
  /\ UNCHANGED <<orama, lab>>

\* filterExactMatches applied to a candidate sequence of the caller's own.
Filter(results, term, propertiesToSearch, preserveSpaces) ==
  /\ lab.pc = "idle"
  /\ lab' = [pc |-> "once", results |-> results, term |-> term,
             properties |-> propertiesToSearch, preserveSpaces |-> preserveSpaces,
             out |-> filterExactMatches(orama["plain"], results, term,
                                        propertiesToSearch, preserveSpaces),
             again |-> <<>>]
  /\ UNCHANGED <<orama, calls>>

\* filterExactMatches applied to its own output, all else the same.
FilterAgain ==
  /\ lab.pc = "once"
  /\ lab' = [lab EXCEPT !.pc = "twice",
                        !.again = filterExactMatches(orama["plain"], lab.out, lab.term,
                                                     lab.properties, lab.preserveSpaces)]
  /\ UNCHANGED <<orama, calls>>

Forget ==
  /\ lab.pc = "twice"
  /\ lab' = LabIdle
  /\ UNCHANGED <<orama, calls>>

\* What the callers can do besides starting a search.
Step(callers) ==
  \/ \E c \in callers : Release(c)
  \/ \E c \in callers : BeforeHook(c)
  \/ \E c \in callers : Core(c)
  \/ \E c \in callers : AfterHook(c)
  \/ \E c \in callers : Resolve(c)

\* ------------------------------------------------------------ specifications

\* The greatest number of hooks in a hook list.
MaxHooks == 2

\* The hook lists "hooked" may have: at least one hook in all.
HookConfigs == {h \in (0..MaxHooks) \X (0..MaxHooks) : h[1] + h[2] > 0}

\* Pinning rules: for the query "cat", document 2 is promoted to the top.
PinCat == <<[term |-> cat, doc |-> 2, position |-> 0]>>

InitWith(callers, hookConfigs, presents, pinnings) ==
  /\ \E h \in hookConfigs, present \in presents, pinning \in pinnings :
       orama = [i \in Instances |->
                  IF i = "hooked" THEN Instance(present, pinning, h[1], h[2])
                  ELSE Instance(present, pinning, 0, 0)]
  /\ calls = [c \in callers |-> IdleCall]
  /\ lab = LabIdle

\* The string-typed properties of the schema, in the schema's order.
StringTyped == <<title, body, tags, author>>

IsExplicit(properties) == properties.t = "arr"
HasUnknown(properties) ==
  IsExplicit(properties) /\ \E i \in DOMAIN properties.v : ~InSeq(properties.v[i], StringTyped)
FirstUnknown(properties) ==
  properties.v[CHOOSE i \in DOMAIN properties.v :
                 /\ ~InSeq(properties.v[i], StringTyped)
                 /\ \A j \in 1..(i - 1) : InSeq(properties.v[j], StringTyped)]

Failed(call) == call.pc \in {"threw", "rejected"}
Succeeded(call) == call.pc \in {"returned", "resolved"}
FnsOf(trace) == {trace[i].fn : i \in DOMAIN trace}
SchemaReads == {"index.getSearchablePropertiesWithTypes", "index.getSearchableProperties"}

\* ---- SpecCache: searches that differ in their properties, MaxCalls
\* ---- callers at once on either instance.

MaxCalls == 2

CacheParams ==
  {[NoParams EXCEPT !.term = Str(cat), !.properties = pr] :
     pr \in {Undefined, Star, Arr(<<body, title>>), Arr(<<title, nonexistent, other>>)}}

InitCache == InitWith(1..MaxCalls, {<<1, 1>>}, {{1, 2, 3}}, {<<>>})

NextCache ==
  \/ \E c \in 1..MaxCalls, i \in Instances, p \in CacheParams : Search(c, i, p)
  \/ Step(1..MaxCalls)

SpecCache == InitCache /\ [][NextCache]_vars

\* The properties a finished search handed to the scored search.
SearchedProperties(call) ==
  {call.trace[j].arg.properties : j \in {j \in DOMAIN call.trace : call.trace[j].fn = "index.search"}}

ExpectedProperties(properties) ==
  IF IsExplicit(properties)
  THEN SelectSeq(StringTyped, LAMBDA prop : InSeq(prop, properties.v))
  ELSE StringTyped

CacheOf(i) == orama[i].caches.propertiesToSearch

\* C10: under any interleaving of searches on an instance, its cache is
\* either unset or exactly the string-typed searchable properties in the
\* index's order; once set no step changes it (a later first access would
\* write the same value, an explicit list never narrows or reorders it); and
\* every search that reaches the scored search searches the cached set
\* narrowed to its own explicit list, in the cached order.
C10_CacheStable ==
  [][/\ \A i \in Instances :
          /\ CacheOf(i)' \in {Undefined, Arr(StringTyped)}
          /\ IsDefined(CacheOf(i)) => CacheOf(i)' = CacheOf(i)
     /\ \A c \in DOMAIN calls :
          SearchedProperties(calls'[c]) \subseteq {ExpectedProperties(calls'[c].given.properties)}
     /\ \A c \in DOMAIN calls :
          (calls[c].pc # calls'[c].pc /\ calls'[c].trace # <<>>) =>
            orama'[calls'[c].inst].caches.propertiesToSearch = Arr(StringTyped)
    ]_vars

C10_Witness ==
  /\ CacheOf("hooked") = Arr(StringTyped)
  /\ \E c, d \in DOMAIN calls :
       /\ c # d
       /\ calls[c].inst = "hooked" /\ calls[d].inst = "hooked"
       /\ calls[c].given.properties = Arr(<<body, title>>)
       /\ SearchedProperties(calls[c]) = {<<title, body>>}
       /\ SchemaReads \subseteq FnsOf(calls[c].trace)
       /\ calls[d].pc = "rejected"
       /\ calls[d].trace = <<>>

\* ---- SpecResolve: one caller; searches that differ in what candidate
\* ---- resolution reads (term, properties, where, exact, relevance, sortBy).

YearIs1 == Obj(year :> Num(1))
Within2 == Obj(loc :> Obj(radius :> Num(2)))
RelevanceK0 == Obj(<<"k">> :> Num(0))

ResolveParams ==
  {[NoParams EXCEPT !.term = t, !.properties = pr, !.where = w, !.exact = e] :
     t \in {Undefined, Str(<<>>), Str(cat)},
     pr \in {Undefined, Star, Arr(<<body, title>>), Arr(<<author>>),
             Arr(<<title, nonexistent, other>>), Arr(<<year>>)},
     w \in {Undefined, EmptyObj, YearIs1, Within2},
     e \in {Undefined, Bool(TRUE)}}
  \cup
  {[NoParams EXCEPT !.term = t, !.properties = pr, !.where = w, !.relevance = r,
                    !.sortBy = sb, !.limit = l] :
     t \in {Undefined, Str(<<>>), Str(cat)},
     pr \in {Undefined, Star},
     w \in {Undefined, EmptyObj},
     r \in {Undefined, RelevanceK0},
     sb \in {Undefined, SortByFunction("byYear"), Obj(<<"p">> :> Str(year))},
     l \in {Undefined, Num(1)}}

\* The store holds every document, or has lost document 2 or document 3.
Stores == {{1, 2, 3}, {1, 3}, {1, 2}}

InitResolve == InitWith({1}, {<<1, 1>>}, Stores, {<<>>})

NextResolve ==
  \/ \E i \in Instances, p \in ResolveParams : Search(1, i, p)
  \/ SearchAgain(1)
  \/ Step({1})

SpecResolve == InitResolve /\ [][NextResolve]_vars

\* C1: a search with an explicit properties list that holds a name outside
\* the string-typed searchable set never produces an envelope: it fails with
\* UNKNOWN_INDEX naming the first such name and listing the searchable
\* properties joined by ", ", having called nothing but the schema reads (no
\* where-clause filtering, no scored search, no geo lookup, no store read),
\* and no afterSearch hook is handed a result.
C1_UnknownPropertyFailsFirst ==
  \A c \in DOMAIN calls :
    (HasUnknown(calls[c].given.properties) /\ calls[c].pc \notin {"idle", "before"}) =>
      /\ Failed(calls[c])
      /\ calls[c].result =
           [code |-> "UNKNOWN_INDEX",
            args |-> <<FirstUnknown(calls[c].given.properties),
                       <<"t", ",", " ", "b", ",", " ", "g", ",", " ", "m", ".", "a">> >>]
      /\ FnsOf(calls[c].trace) \subseteq SchemaReads
      /\ \A j \in DOMAIN calls[c].ran : calls[c].ran[j].ev # "afterSearch"

C1_Witness ==
  \E c \in DOMAIN calls :
    /\ calls[c].given.properties = Arr(<<title, nonexistent, other>>)
    /\ HasFilters(calls[c].given.where)
    /\ calls[c].pc = "rejected"
    /\ calls[c].result.args[1] = nonexistent


\* The candidate sequence innerFullTextSearch returned to a search.
Candidates(call) ==
  call.trace[CHOOSE j \in DOMAIN call.trace : call.trace[j].fn = "innerFullTextSearch"].ret

HasCandidates(call) == "innerFullTextSearch" \in FnsOf(call.trace)

\* The candidate sequence holds exactly the stored ids, once each, score 0.
IsFullScan(candidates, docs) ==
  /\ {candidates[j][1] : j \in DOMAIN candidates} = DOMAIN docs
  /\ Len(candidates) = Cardinality(DOMAIN docs)
  /\ \A j \in DOMAIN candidates : candidates[j][2] = 0

EmptyTermNoWhere(p) == ~Truthy(p.term) /\ ~HasFilters(p.where)

\* C2 as stated: every search with an empty term and no (or an empty)
\* where-clause resolves to all stored ids with score 0, and counts them,
\* whatever its other parameters.
C2_AsStated ==
  \A c \in DOMAIN calls :
    (calls[c].pc \in Finished /\ EmptyTermNoWhere(calls[c].given)
       /\ ~HasUnknown(calls[c].given.properties)) =>
      /\ Succeeded(calls[c])
      /\ IsFullScan(Candidates(calls[c]), orama[calls[c].inst].data.docs)
      /\ calls[c].result.count = Cardinality(DOMAIN orama[calls[c].inst].data.docs)

\* C2 (amended): every search with an empty term, no properties parameter
\* and no (or an empty) where-clause resolves to all stored ids, once each,
\* with score 0, whatever its other parameters, and its count is the number
\* of stored documents.
C2_FullScanWithoutProperties ==
  \A c \in DOMAIN calls :
    (calls[c].pc \in Finished /\ EmptyTermNoWhere(calls[c].given)
       /\ ~Truthy(calls[c].given.properties)) =>
      /\ Succeeded(calls[c])
      /\ IsFullScan(Candidates(calls[c]), orama[calls[c].inst].data.docs)
      /\ calls[c].result.count = Cardinality(DOMAIN orama[calls[c].inst].data.docs)

C2_Witness ==
  \E c \in DOMAIN calls :
    /\ calls[c].pc = "resolved"
    /\ calls[c].given.term = Str(<<>>)
    /\ calls[c].given.where = EmptyObj
    /\ calls[c].given.properties = Undefined
    /\ IsDefined(calls[c].given.sortBy)
    /\ DOMAIN orama[calls[c].inst].data.docs = {1, 3}
    /\ Candidates(calls[c]) = <<<<1, 0>>, <<3, 0>>>>
    /\ calls[c].result.count = 2

\* C7: a search leaves the caller's params object as it was given: every
\* field, the relevance object and its k, b, d included.
C7_ParamsUnchanged ==
  \A c \in DOMAIN calls :
    calls[c].pc \in Finished => calls[c].params = calls[c].given

\* ---- SpecPage: one caller; searches for "cat" that differ in sorting and
\* ---- paging, on stores with and without a lost document, with and without
\* ---- a pinning rule.

\* The greatest limit and offset a search asks for.
MaxLimit == 2

ByYearField == Obj(<<"p">> :> Str(year))
FacetYear == Obj(year :> EmptyObj)
GroupByYear == Obj(<<"p">> :> Str(year))

SortByChoices ==
  {Undefined, SortByFunction("byScoreAsc"), SortByFunction("byYear"), ByYearField}

PageParams ==
  {[NoParams EXCEPT !.term = Str(cat), !.sortBy = sb, !.limit = l, !.offset = o,
                    !.preflight = pf, !.distinctOn = d] :
     sb \in SortByChoices,
     l \in {Undefined} \cup {Num(n) : n \in 0..MaxLimit},
     o \in {Undefined} \cup {Num(n) : n \in 0..MaxLimit},
     pf \in {Undefined, Bool(TRUE)},
     d \in {Undefined, Str(year)}}
  \cup
  {[NoParams EXCEPT !.term = t, !.exact = e, !.sortBy = sb, !.facets = f,
                    !.groupBy = g, !.includeVectors = iv] :
     t \in {Str(<<>>), Str(cat)},
     e \in {Undefined, Bool(TRUE)},
     sb \in SortByChoices,
     f \in {Undefined, FacetYear},
     g \in {Undefined, GroupByYear},
     iv \in {Undefined, Bool(TRUE)}}

\* The store holds every document, or has lost document 2.
PageStores == {{1, 2, 3}, {1, 3}}

InitPage == InitWith({1}, {<<1, 1>>}, PageStores, {<<>>, PinCat})

NextPage ==
  \/ \E i \in Instances, p \in PageParams : Search(1, i, p)
  \/ Step({1})

SpecPage == InitPage /\ [][NextPage]_vars

\* The entries of a search's trace made by the calls of one function.
EntriesOf(call, fns) == {j \in DOMAIN call.trace : call.trace[j].fn \in fns}
EntryOf(call, fn) == call.trace[CHOOSE j \in DOMAIN call.trace : call.trace[j].fn = fn]

Fetches == {"fetchDocuments", "fetchDocumentsWithDistinct"}
LimitOf(p) == IF IsDefined(p.limit) THEN p.limit.v ELSE 10
OffsetOf(p) == IF IsDefined(p.offset) THEN p.offset.v ELSE 0
Min(a, b) == IF a < b THEN a ELSE b
Max0(a) == IF a < 0 THEN 0 ELSE a
HitIds(result) == {result.hits[j].id : j \in DOMAIN result.hits}
Stored(o, r) == r[1] \in DOMAIN o.data.docs

\* The count of the search with the paging parameters taken away.
Unpaged(p) ==
  [p EXCEPT !.limit = Undefined, !.offset = Undefined, !.distinctOn = Undefined,
            !.preflight = Undefined]
UnpagedCount(o, p) == performSearchLogic(o, Unpaged(p), Language, 0).value.count

\* C4: count is the length of the whole candidate sequence before paging,
\* whatever limit, offset, distinctOn and preflight are; without distinctOn
\* and with every candidate's document stored there are
\* max(0, min(limit, N - offset)) hits; with preflight hits is empty and
\* count still N.
C4_CountBeforePagination ==
  \A c \in DOMAIN calls :
    Succeeded(calls[c]) =>
      LET call == calls[c]
          o == orama[call.inst]
          p == call.given
          full == EntryOf(call, "applyPinningRules").ret
          N == Len(full)
      IN /\ call.result.count = N
         /\ call.result.count = UnpagedCount(o, p)
         /\ p.preflight = Bool(TRUE) => call.result.hits = <<>>
         /\ (/\ p.preflight # Bool(TRUE)
             /\ ~Truthy(p.distinctOn)
             /\ \A j \in DOMAIN full : Stored(o, full[j]))
            => Len(call.result.hits) = Max0(Min(LimitOf(p), N - OffsetOf(p)))

C4_Witness ==
  \E c \in DOMAIN calls :
    /\ calls[c].pc = "returned"
    /\ calls[c].given.limit = Num(2)
    /\ calls[c].given.offset = Num(2)
    /\ calls[c].given.distinctOn = Undefined
    /\ Len(EntryOf(calls[c], "applyPinningRules").ret) = 3
    /\ Len(calls[c].result.hits) = 1
    /\ calls[c].result.count = 3

\* The order the sorting stage leaves the candidates in.
InOrder(o, arr, sortBy) ==
  \A i, j \in DOMAIN arr :
    i < j =>
      IF ~Truthy(sortBy) THEN arr[i][2] >= arr[j][2]
      ELSE IF sortBy = SortByFunction("byScoreAsc") THEN arr[i][2] <= arr[j][2]
      ELSE AllDocs[arr[i][1]].v[year].v <= AllDocs[arr[j][1]].v[year].v

IsPermutation(a, b) ==
  /\ Len(a) = Len(b)
  /\ \A x \in Range(a) \cup Range(b) :
       Cardinality({i \in DOMAIN a : a[i] = x}) = Cardinality({i \in DOMAIN b : b[i] = x})

PositionIn(arr, id) ==
  IF \E i \in DOMAIN arr : arr[i][1] = id
  THEN CHOOSE i \in DOMAIN arr : arr[i][1] = id ELSE 0

\* The documents applyPinningRules moved into the page [offset, offset + limit).
MovedIntoPage(pin, p) ==
  {pin.ret[i][1] : i \in {i \in DOMAIN pin.ret :
     /\ OffsetOf(p) < i /\ i <= OffsetOf(p) + LimitOf(p)
     /\ PositionIn(pin.arg, pin.ret[i][1]) # i}}

\* Pinning runs once, on the sorted candidates, before the fetch; the fetch,
\* count, facets and groups read what it returned.
PinnedOnceAfterSort(call, o) ==
  /\ Cardinality(EntriesOf(call, {"applyPinningRules"})) = 1
  /\ LET pin == EntryOf(call, "applyPinningRules")
         at == CHOOSE j \in DOMAIN call.trace : call.trace[j].fn = "applyPinningRules"
     IN /\ IsPermutation(pin.arg, Candidates(call))
        /\ InOrder(o, pin.arg, call.given.sortBy)
        /\ \A j \in EntriesOf(call, Fetches) :
             j > at /\ call.trace[j].arg.arr = pin.ret
        /\ call.result.count = Len(pin.ret)
        /\ \A j \in EntriesOf(call, {"getFacets", "getGroups"}) :
             call.trace[j].arg = pin.ret

\* C5 as stated: pinning is applied once, to the sorted candidates, before the
\* fetch, and paging, count, facets and groups read its result; so a document
\* it moves into [offset, offset + limit) is in hits.
C5_AsStated ==
  \A c \in DOMAIN calls :
    Succeeded(calls[c]) =>
      /\ PinnedOnceAfterSort(calls[c], orama[calls[c].inst])
      /\ \A id \in MovedIntoPage(EntryOf(calls[c], "applyPinningRules"), calls[c].given) :
           ExternalId(id) \in HitIds(calls[c].result)

\* C5 (amended): pinning is applied once, to the sorted candidates, before the
\* fetch, and paging, count, facets and groups read its result; so, when the
\* search is no preflight and has no distinctOn, a stored document that
\* pinning moves into [offset, offset + limit) is in hits.
C5_PinnedBeforePaging ==
  \A c \in DOMAIN calls :
    Succeeded(calls[c]) =>
      /\ PinnedOnceAfterSort(calls[c], orama[calls[c].inst])
      /\ (calls[c].given.preflight # Bool(TRUE) /\ ~Truthy(calls[c].given.distinctOn)) =>
           \A id \in MovedIntoPage(EntryOf(calls[c], "applyPinningRules"), calls[c].given) :
             id \in DOMAIN orama[calls[c].inst].data.docs =>
               ExternalId(id) \in HitIds(calls[c].result)

\* Document 2 scores least for "cat", is pinned to the top and is the hit of
\* a page of one.
C5_Witness ==
  \E c \in DOMAIN calls :
    /\ calls[c].pc = "resolved"
    /\ calls[c].given.limit = Num(1)
    /\ calls[c].given.offset = Undefined
    /\ calls[c].given.sortBy = Undefined
    /\ orama[calls[c].inst].data.pinning = PinCat
    /\ PositionIn(EntryOf(calls[c], "applyPinningRules").arg, 2) = 3
    /\ PositionIn(EntryOf(calls[c], "applyPinningRules").ret, 2) = 1
    /\ HitIds(calls[c].result) = {ExternalId(2)}

\* C9: a candidate whose document the store does not hold is no error and is
\* left out wherever it is used: the exact-match filter removes it, it is in
\* no hit, and it is in no item handed to a custom comparator.
C9_MissingDocumentExcluded ==
  \A c \in DOMAIN calls :
    LET call == calls[c]
        o == orama[call.inst]
    IN /\ call.pc \in Finished => Succeeded(call)
       /\ \A j \in EntriesOf(call, {"filterExactMatches"}) :
            \A i \in DOMAIN call.trace[j].ret : Stored(o, call.trace[j].ret[i])
       /\ Succeeded(call) =>
            \A i \in DOMAIN call.result.hits : Truthy(call.result.hits[i].document)
       /\ \A j \in EntriesOf(call, {"sortBy"}) :
            \A i \in DOMAIN call.trace[j].arg : Truthy(call.trace[j].arg[i][3])

\* ---- SpecPair: caller 1 searches the instance without hooks, caller 2 the
\* ---- same instance with up to MaxHooks hooks of either kind.

PairParams ==
  {[NoParams EXCEPT !.term = Str(cat)],
   [NoParams EXCEPT !.term = Str(cat), !.exact = Bool(TRUE), !.limit = Num(1)],
   [NoParams EXCEPT !.term = Str(cat), !.properties = Arr(<<title, nonexistent>>)],
   [NoParams EXCEPT !.term = Str(cat), !.sortBy = SortByFunction("byYear")],
   [NoParams EXCEPT !.term = Str(cat), !.facets = FacetYear, !.groupBy = GroupByYear],
   [NoParams EXCEPT !.where = YearIs1, !.sortBy = ByYearField],
   [NoParams EXCEPT !.properties = Star, !.relevance = RelevanceK0],
   [NoParams EXCEPT !.term = Str(<<>>), !.preflight = Bool(TRUE)]}

InitPair == InitWith({1, 2}, HookConfigs, PageStores, {PinCat})

NextPair ==
  \/ \E p \in PairParams : Search(1, "plain", p)
  \/ \E p \in PairParams : Search(2, "hooked", p)
  \/ Step({1, 2})

SpecPair == InitPair /\ [][NextPair]_vars

SansElapsed(result) ==
  [hits |-> result.hits, count |-> result.count, facets |-> result.facets,
   groups |-> result.groups]

SameSearchOnBoth ==
  /\ calls[1].pc \in Finished /\ calls[2].pc \in Finished
  /\ calls[1].inst = "plain" /\ calls[2].inst = "hooked"
  /\ calls[1].given = calls[2].given

\* C3: the same search on the instance without hooks and on the instance
\* with no-op hooks gives envelopes equal in hits, count, facets and groups;
\* when it fails, it fails with the same error on both, thrown on the one
\* and as a rejection on the other.
C3_SyncAsyncAgree ==
  SameSearchOnBoth =>
    /\ calls[1].pc = "returned" <=> calls[2].pc = "resolved"
    /\ calls[1].pc = "threw" <=> calls[2].pc = "rejected"
    /\ Succeeded(calls[1]) => SansElapsed(calls[1].result) = SansElapsed(calls[2].result)
    /\ Failed(calls[1]) => calls[1].result = calls[2].result

C3_Witness ==
  /\ SameSearchOnBoth
  /\ calls[1].pc = "returned" /\ calls[2].pc = "resolved"
  /\ Len(calls[1].result.hits) = 2
  /\ calls[1].result.facets # Undefined
  /\ calls[1].result.elapsed # calls[2].result.elapsed
  /\ SansElapsed(calls[1].result) = SansElapsed(calls[2].result)

\* What a search on instance o has run when it is through: the beforeSearch
\* hooks, the core logic, the afterSearch hooks with the result.
RanEvent(ev, hook, result) == [ev |-> ev, hook |-> hook, result |-> result]
BeforeEvents(o, n) ==
  [j \in 1..n |-> RanEvent("beforeSearch", <<"beforeSearch", j>>, Undefined)]
CoreEvent == <<RanEvent("performSearchLogic", <<>>, Undefined)>>
AfterEvents(o, n, result) ==
  [j \in 1..n |-> RanEvent("afterSearch", <<"afterSearch", j>>, result)]

\* C8: with a hook registered the search is pending until the end: the
\* beforeSearch hooks run first, then the core logic, then the afterSearch
\* hooks with the computed result, and only then the search resolves, with
\* that result; when the core logic throws no afterSearch hook runs. Without
\* hooks the core logic runs in the call and no hook runs.
C8_HookOrder ==
  \A c \in DOMAIN calls :
    LET call == calls[c]
        o == orama[call.inst]
        nB == Len(o.beforeSearch)
        nA == Len(o.afterSearch)
    IN call.pc # "idle" =>
         IF nB + nA > 0
         THEN /\ call.pc \in {"before", "after", "resolved", "rejected"}
              /\ call.pc = "before" => call.ran = BeforeEvents(o, call.k)
              /\ call.pc = "after" =>
                   call.ran = BeforeEvents(o, nB) \o CoreEvent
                                \o AfterEvents(o, call.k, call.result)
              /\ call.pc = "resolved" =>
                   call.ran = BeforeEvents(o, nB) \o CoreEvent
                                \o AfterEvents(o, nA, call.result)
              /\ call.pc = "rejected" => call.ran = BeforeEvents(o, nB) \o CoreEvent
         ELSE /\ call.pc \in {"returned", "threw"}
              /\ call.ran = CoreEvent

C8_Witness ==
  /\ calls[2].pc = "resolved"
  /\ Len(orama["hooked"].beforeSearch) = MaxHooks
  /\ Len(orama["hooked"].afterSearch) = MaxHooks
  /\ Len(calls[2].ran) = 2 * MaxHooks + 1
  /\ calls[2].ran[Len(calls[2].ran)].result = calls[2].result
  /\ calls[1].pc = "returned" /\ calls[1].ran = CoreEvent

\* ---- SpecExact: the exact-match filter on candidate sequences of up to
\* ---- MaxLen items, applied once and then to its own output.

\* The greatest length of a candidate sequence.
MaxLen == 2

\* Candidates: document 2 twice with different scores, document 4 unknown.
Items == {<<1, 5>>, <<2, 0>>, <<3, 2>>, <<2, 7>>, <<4, 1>>}

RECURSIVE SeqsUpTo(_, _)
SeqsUpTo(S, n) ==
  IF n = 0 THEN {<<>>}
  ELSE LET shorter == SeqsUpTo(S, n - 1)
       IN shorter \cup {Append(q, x) : q \in {r \in shorter : Len(r) = n - 1}, x \in S}

Terms ==
  {<<>>, <<" ">>, cat, <<" ">> \o cat, cat \o <<" ">>, the_cat, Cat, category,
   c_dot_t, dog_c_dot_t}

PropertyLists == {<<title>>, <<title, body>>, <<tags, author>>, <<year, body>>}

InitExact == InitWith({}, {<<1, 0>>}, PageStores, {<<>>})

NextExact ==
  \/ \E results \in SeqsUpTo(Items, MaxLen), term \in Terms,
        propertiesToSearch \in PropertyLists, preserveSpaces \in BOOLEAN :
       Filter(results, term, propertiesToSearch, preserveSpaces)
  \/ FilterAgain
  \/ Forget

SpecExact == InitExact /\ [][NextExact]_vars

\* a is b with some items left out, the others in b's order.
RECURSIVE IsSubsequence(_, _)
IsSubsequence(a, b) ==
  IF a = <<>> THEN TRUE
  ELSE IF b = <<>> THEN FALSE
  ELSE IF Head(a) = Head(b) THEN IsSubsequence(Tail(a), Tail(b))
  ELSE IsSubsequence(a, Tail(b))

\* C6: the exact-match filter applied to its own output, with the same term,
\* properties, flag and store, returns that output; and its output is a
\* subsequence of its input: the items it keeps, in their order, with their
\* scores.
C6_FilterIdempotent ==
  /\ lab.pc \in {"once", "twice"} => IsSubsequence(lab.out, lab.results)
  /\ lab.pc = "twice" => lab.again = lab.out

C6_Witness ==
  /\ lab.pc = "twice"
  /\ lab.preserveSpaces
  /\ lab.term = <<" ">> \o cat
  /\ lab.results = <<<<2, 7>>, <<3, 2>>>>
  /\ lab.out = <<<<3, 2>>>>
  /\ lab.again = lab.out

====
